---- MODULE Spec2Model ----
(***************************************************************************)
(* A model of hyper-tls' HttpsConnector (src/src/client.rs): the connector *)
(* with its force_https flag, the connect operation `call`, the future it  *)
(* returns (HttpsConnecting) and the polling and dropping of that future.  *)
(* The two collaborators (hyper's HttpConnector and tokio_tls'             *)
(* TlsConnector) are instrumented fakes: every invocation is recorded with *)
(* its arguments, and what the futures they return yield when polled       *)
(* (Pending, a success or a failure) is the environment's choice.          *)
(***************************************************************************)
EXTENDS Naturals, Sequences, FiniteSets

\* force_https[c]: the flag of connector c.
\* ops[o]:         the o-th HttpsConnecting created, with what it has done.
\* readiness:      what the latest step returned, if it was a poll_ready.
\* unserved:       what the latest step asked for, if it was a call of the
\*                 documented setter that the source does not define.
VARIABLES force_https, ops, readiness, unserved

vars == <<force_https, ops, readiness, unserved>>

----------------------------------------------------------------------------
(* Bounds of the model. *)

\* Connector instances the caller holds.
MaxConnectors == 2
\* Connect operations (HttpsConnecting futures) created in one run.
MaxOps == 2

Connectors == 1..MaxConnectors
Ops == 1..MaxOps

----------------------------------------------------------------------------
(* Inputs and collaborator outcomes. *)

Schemes == {"https", "http"}
Hosts == {"a.example", "b.example"}
Destinations == [scheme : Schemes, host : Hosts]

\* What the fake HttpConnector's error prints as under {:?}.
HttpErrors == {"ConnectError(refused)"}
\* What the fake TlsConnector's native_tls::Error prints as.
TlsErrors == {"bad certificate"}

NoStream == [kind |-> "none", of |-> 0, host |-> ""]
NoMeta == [meta |-> "none", of |-> 0]
NoDst == [scheme |-> "", host |-> ""]
NoErr == << >>
NoOut == [ok |-> FALSE, stream |-> NoStream, connected |-> NoMeta, err |-> ""]

\* The TcpStream the plaintext collaborator opens for operation o.
TcpOf(o) == [kind |-> "tcp", of |-> o, host |-> ""]
\* The TlsStream<TcpStream> the TLS collaborator builds over tcp for `host`.
TlsOver(host, tcp) == [kind |-> "tls", of |-> tcp.of, host |-> host]
\* The Connected metadata the plaintext collaborator produces for operation o.
MetaOf(o) == [meta |-> "connected", of |-> o]

\* Poll::Pending from a collaborator future.
Pending == [st |-> "pending", out |-> NoOut]

\* Poll::Ready(out) from a collaborator future.
Ready(out) == [st |-> "ready", out |-> out]

\* Everything the plaintext collaborator's future of operation o can yield.
HttpOutcomes(o) ==
  { [ok |-> TRUE, stream |-> TcpOf(o), connected |-> MetaOf(o), err |-> ""] }
  \cup { [ok |-> FALSE, stream |-> NoStream, connected |-> NoMeta, err |-> e]
           : e \in HttpErrors }

\* Everything the TLS collaborator's future can yield, invoked with (host, tcp).
TlsOutcomes(host, tcp) ==
  { [ok |-> TRUE, stream |-> TlsOver(host, tcp), connected |-> NoMeta, err |-> ""] }
  \cup { [ok |-> FALSE, stream |-> NoStream, connected |-> NoMeta, err |-> e]
           : e \in TlsErrors }

\* A collaborator future: not invoked ("none"), in flight ("pending"),
\* polled to completion ("completed", with what it yielded in out), or
\* dropped before that ("dropped").  dst, host and tcp are the arguments it
\* was invoked with.
NoFut == [st |-> "none", dst |-> NoDst, host |-> "", tcp |-> NoStream, out |-> NoOut]

NoResult == [kind |-> "none", variant |-> "none", stream |-> NoStream,
             connected |-> NoMeta, err |-> NoErr]

\* An HttpsConnecting.  pc is where its boxed future stands: "rejected" (the
\* pre-failed future, not polled yet), "created" (the async block, not polled
\* yet), "connecting" (suspended at connecting.await), "handshaking"
\* (suspended at tls.connect(..).await), "done" (it returned Ready) or
\* "dropped" (dropped before that, when it stood at `was`).  dst is the
\* destination submitted and forced whether it was a destination other than
\* "https" submitted while the flag was set; is_https, host, connecting, tls
\* and connected are what the async block owns.
NoOp == [pc |-> "none", was |-> "none", dst |-> NoDst, forced |-> FALSE,
         is_https |-> FALSE, host |-> "",
         connecting |-> NoFut, tls |-> NoFut,
         httpCalls |-> 0, tlsCalls |-> 0,
         connected |-> NoMeta, result |-> NoResult]

----------------------------------------------------------------------------
(* HttpsConnector: construction and cloning. *)

\* Faulty variant of from_force_https: the connector is built enforcing.
from_force_https_Enforcing == TRUE

\* From<(HttpConnector, TlsConnector)>::from, which new() and new_() end in:
\* the flag of a freshly built connector.
from_force_https == FALSE

\* The latest step was no poll_ready.
NotPolled == [value |-> "none", busy |-> FALSE]

\* The latest step was no call of the undefined setter.
NoRequest == [c |-> 0, enable |-> FALSE]

\* Every connector the caller holds has been built by new() or from().
Init ==
  /\ force_https = [c \in Connectors |-> from_force_https]
  /\ ops = [o \in Ops |-> NoOp]
  /\ readiness = NotPolled
  /\ unserved = NoRequest

\* #[derive(Clone)]: the clone is a copy of every field of c and shares
\* nothing mutable with it afterwards.
CloneFlag(c) == force_https[c]

\* d = c.clone(): the caller replaces the connector it held as d.
clone(c, d) ==
  /\ c # d
  /\ force_https' = [force_https EXCEPT ![d] = CloneFlag(c)]
  /\ readiness' = NotPolled /\ unserved' = NoRequest
  /\ UNCHANGED ops

----------------------------------------------------------------------------
(* The flag setter.  The doc comment of HttpsConnector::new tells the      *)
(* caller to "call https_only(true) on the returned connector"; the file   *)
(* defines no such method and no other code writes force_https.            *)

\* The caller follows the doc comment.  With the source as it is there is
\* nothing to run: the connector keeps the flag it was built with.
https_only_undefined(c, enable) ==
  /\ unserved' = [c |-> c, enable |-> enable]
  /\ readiness' = NotPolled
  /\ UNCHANGED <<force_https, ops>>

\* The setter as documented: self.force_https = enable, on this instance.
https_only(c, enable) ==
  /\ force_https' = [force_https EXCEPT ![c] = enable]
  /\ readiness' = NotPolled /\ unserved' = NoRequest
  /\ UNCHANGED ops

----------------------------------------------------------------------------
(* Service::poll_ready. *)

\* The connect operations that are created and neither resolved nor dropped.
InFlight ==
  {o \in Ops : ops[o].pc \in {"rejected", "created", "connecting", "handshaking"}}

\* Faulty variant of ReadyValue: readiness follows the operations in flight.
ReadyValue_Busy(c) == IF InFlight # {} THEN "Pending" ELSE "Ready(Ok(()))"

\* The value poll_ready returns: Poll::Ready(Ok(())), whatever is in flight.
ReadyValue(c) == "Ready(Ok(()))"

\* readiness holds the value returned, and whether every operation of the
\* model was in flight when it was returned.
poll_ready(c) ==
  /\ readiness' = [value |-> ReadyValue(c), busy |-> InFlight = Ops]
  /\ unserved' = NoRequest
  /\ UNCHANGED <<force_https, ops>>

----------------------------------------------------------------------------
(* Service::call. *)

\* let is_https = dst.scheme() == "https";
is_https(dst) == dst.scheme = "https"

\* Faulty variant of EarlyAbort: the negation of is_https is lost.
EarlyAbort_NoNegation(force, dst) == is_https(dst) /\ force

\* if !is_https && self.force_https
EarlyAbort(force, dst) == ~is_https(dst) /\ force

\* What is recorded of the submission: a destination other than "https" was
\* submitted while self.force_https was set.
ForcedPlain(force, dst) == dst.scheme # "https" /\ force

PolicyError == <<"HTTPS scheme forced but can't be used">>

\* return HttpsConnecting(Box::pin(async { Err(err) })): a future that holds
\* only the error; no collaborator has been touched.
Rejected(force, dst) ==
  [NoOp EXCEPT !.pc = "rejected", !.dst = dst, !.forced = ForcedPlain(force, dst),
               !.is_https = is_https(dst)]

\* let connecting = self.http.call(dst): the plaintext collaborator is
\* invoked with the destination and hands back its future.
HttpCall(dst) == [NoFut EXCEPT !.st = "pending", !.dst = dst]

\* Faulty variant of HostOf: the host is kept once for the connector, by the
\* first submission.
HostOf_FirstSubmitted(dst) ==
  IF ops[1].pc # "none" THEN ops[1].dst.host ELSE dst.host

\* let host = dst.host().to_owned();
HostOf(dst) == dst.host

\* Faulty variant of Admitted: self.http.call(dst) is left to the block's
\* first poll; the future handed back has invoked nothing.
Admitted_Lazy(force, dst) ==
  [NoOp EXCEPT !.pc = "created", !.dst = dst, !.forced = ForcedPlain(force, dst),
               !.is_https = is_https(dst), !.host = HostOf(dst)]

\* The async move block, not yet polled: it owns host, connecting, the
\* cloned tls handle and is_https.
Admitted(force, dst) ==
  [NoOp EXCEPT !.pc = "created", !.dst = dst, !.forced = ForcedPlain(force, dst),
               !.is_https = is_https(dst), !.host = HostOf(dst),
               !.connecting = HttpCall(dst), !.httpCalls = 1]

CallFuture(force, dst) ==
  IF EarlyAbort(force, dst) THEN Rejected(force, dst) ELSE Admitted(force, dst)

\* Operation ids are handed out in order of submission.
FreshOp(o) ==
  /\ ops[o].pc = "none"
  /\ \A p \in Ops : p < o => ops[p].pc # "none"

call(c, dst) ==
  /\ \E o \in Ops :
       /\ FreshOp(o)
       /\ ops' = [ops EXCEPT ![o] = CallFuture(force_https[c], dst)]
  /\ readiness' = NotPolled /\ unserved' = NoRequest
  /\ UNCHANGED force_https

----------------------------------------------------------------------------
(* What the collaborators' futures yield when they are polled. *)

\* What a poll of the plaintext collaborator's future of operation o can
\* return.
HttpPolls(o) == {Pending} \cup {Ready(out) : out \in HttpOutcomes(o)}

\* How a poll of a handshake future can go, whatever it was invoked with.
TlsVerdicts == {"pending", "ok"} \cup TlsErrors

\* What a poll of the handshake future invoked with (host, tcp) returns when
\* it goes as `verdict`.
TlsPoll(host, tcp, verdict) ==
  IF verdict = "pending"
  THEN Pending
  ELSE Ready(CHOOSE out \in TlsOutcomes(host, tcp) :
               IF verdict = "ok" THEN out.ok ELSE ~out.ok /\ out.err = verdict)

----------------------------------------------------------------------------
(* Future::poll of HttpsConnecting: Pin::new(&mut self.0).poll(cx), one    *)
(* run of the boxed future up to its next suspension or its end.           *)

Ok(variant, stream, connected) ==
  [kind |-> "ok", variant |-> variant, stream |-> stream,
   connected |-> connected, err |-> NoErr]

Err(msg) == [NoResult EXCEPT !.kind = "err", !.err = msg]

\* io::Error::new(Other, format!("HTTP Connection failed: {:?}", e))
HttpFailed(e) == <<"HTTP Connection failed: ", e>>

\* Faulty variant of TlsFailed: the handshake's error is reported in the words
\* of the connection stage, without its own text.
TlsFailed_AsTransport(e) == <<"HTTP Connection failed: ", "ConnectError(refused)">>

\* io::Error::new(Other, e): the TLS error itself is the payload.
TlsFailed(e) == <<e>>

\* Faulty variant of Resolve: the operations report through one shared slot,
\* which keeps the first failure put into it.
Resolve_SharedFailure(op, res) ==
  LET failed == {p \in Ops : ops[p].result.kind = "err"}
  IN  [op EXCEPT !.pc = "done",
                 !.result = IF failed # {}
                            THEN ops[CHOOSE p \in failed : TRUE].result
                            ELSE res]

\* The poll returns Poll::Ready(res): the future is finished.
Resolve(op, res) == [op EXCEPT !.pc = "done", !.result = res]

\* The poll returns Poll::Pending: the future stays suspended at `at`.
Suspend(op, at) == [op EXCEPT !.pc = at]

\* tls.connect(&host, tcp): the TLS collaborator is invoked with the captured
\* host and the stream, and hands back its future.
TlsConnect(host, tcp) ==
  [NoFut EXCEPT !.st = "pending", !.host = host, !.tcp = tcp]

\* MaybeHttpsStream::Https(tls) / MaybeHttpsStream::Http(tcp)
Https(stream) == [variant |-> "Https", stream |-> stream]
Http(stream) == [variant |-> "Http", stream |-> stream]

\* Ok((maybe, connected))
Finish(op, maybe, connected) ==
  Resolve(op, Ok(maybe.variant, maybe.stream, connected))

\* Faulty variant of AwaitTls: a failed handshake is tried once more on the
\* same stream.
AwaitTls_Retry(op, verdict) ==
  LET r == TlsPoll(op.tls.host, op.tls.tcp, verdict)
      got == [op EXCEPT !.tls.st = "completed", !.tls.out = r.out]
  IN  IF r.st = "pending"
      THEN Suspend(op, "handshaking")
      ELSE IF r.out.ok
           THEN Finish(got, Https(r.out.stream), got.connected)
           ELSE IF op.tlsCalls < 2
                THEN Suspend([op EXCEPT !.tls = TlsConnect(op.host, op.tls.tcp),
                                        !.tlsCalls = @ + 1], "handshaking")
                ELSE Resolve(got, Err(TlsFailed(r.out.err)))

\* Faulty variant of AwaitTls: what the handshake future returns is not taken;
\* the block stays at the await.
AwaitTls_Hangs(op, verdict) == Suspend(op, "handshaking")

\* Faulty variant of AwaitTls: a failed handshake falls back to the plain stream.
AwaitTls_Fallback(op, verdict) ==
  LET r == TlsPoll(op.tls.host, op.tls.tcp, verdict)
      got == [op EXCEPT !.tls.st = "completed", !.tls.out = r.out]
  IN  IF r.st = "pending"
      THEN Suspend(op, "handshaking")
      ELSE IF r.out.ok
           THEN Finish(got, Https(r.out.stream), got.connected)
           ELSE Finish(got, Http(op.tls.tcp), got.connected)

\* Faulty variant of AwaitTls: the encrypted path returns metadata of its own.
AwaitTls_FreshMeta(op, verdict) ==
  LET r == TlsPoll(op.tls.host, op.tls.tcp, verdict)
      got == [op EXCEPT !.tls.st = "completed", !.tls.out = r.out]
  IN  IF r.st = "pending"
      THEN Suspend(op, "handshaking")
      ELSE IF r.out.ok
           THEN Finish(got, Https(r.out.stream), NoMeta)
           ELSE Resolve(got, Err(TlsFailed(r.out.err)))

\* .await on the handshake, .map_err(..)?, MaybeHttpsStream::Https(tls):
\* the handshake future is polled and goes as `verdict`.
AwaitTls(op, verdict) ==
  LET r == TlsPoll(op.tls.host, op.tls.tcp, verdict)
      got == [op EXCEPT !.tls.st = "completed", !.tls.out = r.out]
  IN  IF r.st = "pending"
      THEN Suspend(op, "handshaking")
      ELSE IF r.out.ok
           THEN Finish(got, Https(r.out.stream), got.connected)
           ELSE Resolve(got, Err(TlsFailed(r.out.err)))

\* Faulty variant of Upgrade: the handshake is skipped for every scheme.
Upgrade_NeverTls(op, tcp, connected, verdict) == Finish(op, Http(tcp), connected)

\* Faulty variant of Upgrade: the handshake is run for every scheme.
Upgrade_AlwaysTls(op, tcp, connected, verdict) ==
  AwaitTls([op EXCEPT !.connected = connected,
                      !.tls = TlsConnect(op.host, tcp),
                      !.tlsCalls = @ + 1], verdict)

\* if is_https { tls.connect(&host, tcp).await ... } else { Http(tcp) }
Upgrade(op, tcp, connected, verdict) ==
  IF op.is_https
  THEN AwaitTls([op EXCEPT !.connected = connected,
                           !.tls = TlsConnect(op.host, tcp),
                           !.tlsCalls = @ + 1], verdict)
  ELSE Finish(op, Http(tcp), connected)

\* Faulty variant of AwaitConnecting: the force_https check is made when the
\* block runs, against the flag as it is by then.
AwaitConnecting_LateCheck(op, r, verdict) ==
  LET got == [op EXCEPT !.connecting.st = "completed", !.connecting.out = r.out]
  IN  IF r.st = "pending"
      THEN Suspend(op, "connecting")
      ELSE IF ~op.is_https /\ \E c \in Connectors : force_https[c]
           THEN Resolve(got, Err(PolicyError))
           ELSE IF r.out.ok
                THEN Upgrade(got, r.out.stream, r.out.connected, verdict)
                ELSE Resolve(got, Err(HttpFailed(r.out.err)))

\* Faulty variant of AwaitConnecting: the handshake is started while the plaintext
\* connection is still pending.
AwaitConnecting_EagerTls(op, r, verdict) ==
  LET got == [op EXCEPT !.connecting.st = "completed", !.connecting.out = r.out]
  IN  IF r.st = "pending"
      THEN Suspend([op EXCEPT !.tls = TlsConnect(op.host, NoStream),
                              !.tlsCalls = @ + 1], "connecting")
      ELSE IF r.out.ok
           THEN Upgrade(got, r.out.stream, r.out.connected, verdict)
           ELSE Resolve(got, Err(HttpFailed(r.out.err)))

\* Faulty variant of AwaitConnecting: the plaintext collaborator's error is not
\* looked at.
AwaitConnecting_ErrIgnored(op, r, verdict) ==
  LET got == [op EXCEPT !.connecting.st = "completed", !.connecting.out = r.out]
  IN  IF r.st = "pending"
      THEN Suspend(op, "connecting")
      ELSE Upgrade(got, r.out.stream, r.out.connected, verdict)

\* let (tcp, connected) = connecting.await.map_err(..)?; and what follows
\* it: `connecting` is polled and returns r.
AwaitConnecting(op, r, verdict) ==
  LET got == [op EXCEPT !.connecting.st = "completed", !.connecting.out = r.out]
  IN  IF r.st = "pending"
      THEN Suspend(op, "connecting")
      ELSE IF r.out.ok
           THEN Upgrade(got, r.out.stream, r.out.connected, verdict)
           ELSE Resolve(got, Err(HttpFailed(r.out.err)))

\* Faulty variant of PollFuture: the pre-failed future suspends on its first
\* poll, as if it had a connection to wait for.
PollFuture_RejectedSuspends(op, r, verdict) ==
  CASE op.pc = "rejected" -> Suspend(op, "connecting")
    [] op.pc \in {"created", "connecting"} -> AwaitConnecting(op, r, verdict)
    [] op.pc = "handshaking" -> AwaitTls(op, verdict)
    [] OTHER -> op

\* One poll of the boxed future, from where it stands.
PollFuture(op, r, verdict) ==
  CASE op.pc = "rejected" -> Resolve(op, Err(PolicyError))
    [] op.pc \in {"created", "connecting"} -> AwaitConnecting(op, r, verdict)
    [] op.pc = "handshaking" -> AwaitTls(op, verdict)
    [] OTHER -> op

\* The returns of `connecting` this poll of op can meet: it is polled only
\* at connecting.await.
HttpPollsAt(op, o) ==
  IF op.pc \in {"created", "connecting"} THEN HttpPolls(o) ELSE {Pending}

\* The ways the handshake can go that this poll of op can meet: a handshake
\* future is polled only at its await, which follows a connection.
TlsVerdictsAt(op, r) ==
  IF op.pc = "handshaking" \/ (r.st = "ready" /\ r.out.ok)
  THEN TlsVerdicts
  ELSE {"pending"}

\* A future is polled until it returns Ready and not after.  r is what the
\* plaintext collaborator's future returns if this poll reaches it, and
\* verdict how the handshake future's poll goes if this poll reaches it.
poll(o, r, verdict) ==
  /\ ops[o].pc \in {"rejected", "created", "connecting", "handshaking"}
  /\ ops' = [ops EXCEPT ![o] = PollFuture(ops[o], r, verdict)]
  /\ readiness' = NotPolled /\ unserved' = NoRequest
  /\ UNCHANGED force_https

----------------------------------------------------------------------------
(* Dropping an HttpsConnecting before it has resolved drops the boxed      *)
(* future and with it whatever that future owns.                           *)

\* Faulty variant of DropFut: the collaborator future outlives the operation.
DropFut_Leak(f) == f

\* Drop of a collaborator future that has not returned Ready.
DropFut(f) == IF f.st = "pending" THEN [f EXCEPT !.st = "dropped"] ELSE f

Dropped(op) ==
  [op EXCEPT !.pc = "dropped", !.was = op.pc,
             !.connecting = DropFut(@), !.tls = DropFut(@)]

drop(o) ==
  /\ ops[o].pc \in {"rejected", "created", "connecting", "handshaking"}
  /\ ops' = [ops EXCEPT ![o] = Dropped(ops[o])]
  /\ readiness' = NotPolled /\ unserved' = NoRequest
  /\ UNCHANGED force_https

----------------------------------------------------------------------------
(* Specifications. *)

\* What the connector and its futures do whichever setter is in place.
Common ==
  \/ \E c, d \in Connectors : clone(c, d)
  \/ \E c \in Connectors : poll_ready(c)
  \/ \E c \in Connectors, dst \in Destinations : call(c, dst)
  \/ \E o \in Ops : \E r \in HttpPollsAt(ops[o], o) :
       \E verdict \in TlsVerdictsAt(ops[o], r) : poll(o, r, verdict)
  \/ \E o \in Ops : drop(o)

\* The source as it is: force_https is written by the constructor and by
\* clone only.
Next ==
  \/ Common
  \/ \E c \in Connectors, enable \in BOOLEAN : https_only_undefined(c, enable)

Spec == Init /\ [][Next]_vars

\* The connector with the documented setter in place.
NextHttpsOnly ==
  \/ Common
  \/ \E c \in Connectors, enable \in BOOLEAN : https_only(c, enable)

SpecHttpsOnly == Init /\ [][NextHttpsOnly]_vars

\* A poll of operation o in which the collaborator future it stands at has
\* completed: `connecting` returns Ready at connecting.await, the handshake
\* future returns Ready at its await.
CompletingPoll(o) ==
  \E r \in HttpPollsAt(ops[o], o) : \E verdict \in TlsVerdictsAt(ops[o], r) :
    /\ ops[o].pc \in {"created", "connecting"} => r.st = "ready"
    /\ ops[o].pc = "handshaking" => verdict # "pending"
    /\ poll(o, r, verdict)

\* The life of the connect operations: they are submitted, polled and
\* dropped.  clone, poll_ready and the request for the setter leave ops as it
\* is and, with the source as it is, the flags too.
NextFair ==
  \/ \E c \in Connectors, dst \in Destinations : call(c, dst)
  \/ \E o \in Ops : \E r \in HttpPollsAt(ops[o], o) :
       \E verdict \in TlsVerdictsAt(ops[o], r) : poll(o, r, verdict)
  \/ \E o \in Ops : drop(o)

\* The executor keeps polling every operation it holds, and no collaborator
\* future stays pending for ever.
SpecFair ==
  Init /\ [][NextFair]_vars /\ \A o \in Ops : WF_vars(CompletingPoll(o))

----------------------------------------------------------------------------
(* Properties. *)

\* How the caller tells the three errors apart: by the io::Error's text.
IsPolicyViolation(res) ==
  res.kind = "err" /\ res.err = <<"HTTPS scheme forced but can't be used">>

IsTransportFailure(res) ==
  /\ res.kind = "err"
  /\ Len(res.err) = 2
  /\ res.err[1] = "HTTP Connection failed: "
  /\ res.err[2] \in HttpErrors

IsHandshakeFailure(res) ==
  res.kind = "err" /\ Len(res.err) = 1 /\ res.err[1] \in TlsErrors

Succeeded(op) == op.pc = "done" /\ op.result.kind = "ok"

\* The operation was submitted with a scheme other than "https" while the
\* connector's flag was set.
SubmittedForced(op) == op.pc # "none" /\ op.dst.scheme # "https" /\ op.forced

\* The operation was submitted with a scheme other than "https" while the
\* connector's flag was clear.
SubmittedPlain(op) == op.pc # "none" /\ op.dst.scheme # "https" /\ ~op.forced

\* C1: a connect call with a scheme other than "https", made while
\* force_https is set, fails with the policy-violation error, and neither the
\* plaintext collaborator nor the TLS collaborator is ever invoked for it.
C1_ForcedPlainRejected ==
  \A o \in Ops :
    SubmittedForced(ops[o]) =>
      /\ ops[o].pc \in {"rejected", "done", "dropped"}
      /\ ops[o].pc = "done" => IsPolicyViolation(ops[o].result)
      /\ ops[o].httpCalls = 0 /\ ops[o].connecting.st = "none"
      /\ ops[o].tlsCalls = 0 /\ ops[o].tls.st = "none"

C1_Witness ==
  \E o \in Ops :
    /\ SubmittedForced(ops[o])
    /\ ops[o].pc = "done"
    /\ IsPolicyViolation(ops[o].result)

\* C2: the TLS handshake of an operation is started only once the plaintext
\* connection of that same operation has succeeded, on the stream it
\* returned; and a collaborator is invoked only for an operation that has
\* passed the force_https check.
C2_Ordering ==
  \A o \in Ops :
    /\ (ops[o].tlsCalls > 0 \/ ops[o].tls.st # "none") =>
         /\ ops[o].connecting.st = "completed"
         /\ ops[o].connecting.out.ok
         /\ ops[o].tls.tcp = ops[o].connecting.out.stream
    /\ (ops[o].httpCalls > 0 \/ ops[o].tlsCalls > 0) =>
         ~SubmittedForced(ops[o])

C2_Witness ==
  \E o, p \in Ops :
    /\ ops[o].tls.st = "pending"
    /\ ops[o].connecting.st = "completed"
    /\ ops[p].pc = "rejected" /\ SubmittedForced(ops[p])

\* C3: an operation for an "https" destination that resolves successfully
\* returns the encrypted variant, with the flag set or not.
C3_HttpsIsEncrypted ==
  \A o \in Ops :
    (ops[o].dst.scheme = "https" /\ Succeeded(ops[o])) =>
      /\ ops[o].result.variant = "Https"
      /\ ops[o].result.stream.kind = "tls"

C3_Witness ==
  \E o \in Ops :
    /\ ops[o].dst.scheme = "https"
    /\ Succeeded(ops[o])
    /\ ops[o].result.variant = "Https"
    /\ \E c \in Connectors : force_https[c]
    /\ \E c \in Connectors : ~force_https[c]

\* C4: an operation for a destination whose scheme is not "https", submitted
\* with the flag clear, never invokes the TLS collaborator, and when it
\* resolves successfully it returns the plain variant.
C4_PlainIsPlain ==
  \A o \in Ops :
    SubmittedPlain(ops[o]) =>
      /\ ops[o].tlsCalls = 0 /\ ops[o].tls.st = "none"
      /\ Succeeded(ops[o]) =>
           /\ ops[o].result.variant = "Http"
           /\ ops[o].result.stream = TcpOf(o)

C4_Witness ==
  \E o \in Ops :
    /\ SubmittedPlain(ops[o])
    /\ Succeeded(ops[o])
    /\ ops[o].result.variant = "Http"

\* The plaintext collaborator's future of the operation has failed.
HttpHasFailed(op) == op.connecting.st = "completed" /\ ~op.connecting.out.ok

\* C5: when the plaintext collaborator fails, the operation resolves to the
\* transport-failure error and the TLS collaborator is never invoked for it;
\* for every scheme.
C5_TransportFailure ==
  \A o \in Ops :
    HttpHasFailed(ops[o]) =>
      /\ ops[o].tlsCalls = 0 /\ ops[o].tls.st = "none"
      /\ ops[o].pc = "done"
      /\ IsTransportFailure(ops[o].result)
      /\ ops[o].result.err[2] = ops[o].connecting.out.err

C5_Witness ==
  \E o, p \in Ops :
    /\ ops[o].dst.scheme = "https" /\ ops[p].dst.scheme = "http"
    /\ ops[o].connecting.st = "completed" /\ ~ops[o].connecting.out.ok
    /\ ops[p].connecting.st = "completed" /\ ~ops[p].connecting.out.ok
    /\ IsTransportFailure(ops[o].result) /\ IsTransportFailure(ops[p].result)

\* C6: when the plaintext connection succeeds and the handshake then fails,
\* the operation resolves to the handshake-failure error; an operation whose
\* handshake was started never hands the plain stream to the caller.
C6_HandshakeFailure ==
  \A o \in Ops :
    /\ (ops[o].tls.st = "completed" /\ ~ops[o].tls.out.ok) =>
         /\ ops[o].connecting.out.ok
         /\ ops[o].pc = "done"
         /\ IsHandshakeFailure(ops[o].result)
         /\ ops[o].result.stream = NoStream
    /\ ops[o].tlsCalls > 0 =>
         /\ ops[o].result.variant # "Http"
         /\ ops[o].result.stream.kind # "tcp"

C6_Witness ==
  \E o \in Ops :
    /\ ops[o].dst.scheme = "https"
    /\ ops[o].connecting.st = "completed" /\ ops[o].connecting.out.ok
    /\ ops[o].tls.st = "completed" /\ ~ops[o].tls.out.ok
    /\ IsHandshakeFailure(ops[o].result)

\* The collaborator future the operation was waiting on when it was dropped
\* is dropped, not completed, and the operation has no result.
DroppedCleanly(op) ==
  /\ op.result = NoResult
  /\ op.was = "rejected" => (op.connecting.st = "none" /\ op.tls.st = "none")
  /\ op.was \in {"created", "connecting"} =>
       (op.connecting.st = "dropped" /\ op.tls.st = "none")
  /\ op.was = "handshaking" =>
       (op.connecting.st = "completed" /\ op.tls.st = "dropped")

\* C7: dropping an operation that has not resolved, while it waits for the
\* plaintext connection or for the handshake, drops the collaborator future
\* in flight without completing it; from then on the operation never
\* resolves and invokes no collaborator: nothing of it changes any more.
C7_DropCancels ==
  /\ [](\A o \in Ops : ops[o].pc = "dropped" => DroppedCleanly(ops[o]))
  /\ [][\A o \in Ops : ops[o].pc = "dropped" => ops'[o] = ops[o]]_vars

C7_Witness ==
  \E o, p \in Ops :
    /\ ops[o].pc = "dropped" /\ ops[o].was = "connecting"
    /\ ops[o].tlsCalls = 0 /\ ops[o].connecting.st = "dropped"
    /\ ops[p].pc = "dropped" /\ ops[p].was = "handshaking"
    /\ ops[p].tlsCalls = 1 /\ ops[p].tls.st = "dropped"

\* C8: the connector offers a set-force-encryption operation, and once a
\* caller has set the flag on an instance, the flag every later connect call
\* on that instance reads is the value that was set.
C8_SetterTakesEffect ==
  unserved.c \in Connectors => force_https[unserved.c] = unserved.enable

\* C9: poll_ready returns Ready(Ok(())) in every state, however many
\* operations are in flight, and it changes nothing of the connector or of
\* the operations.
C9_AlwaysReady ==
  /\ [](readiness.value \in {"none", "Ready(Ok(()))"})
  /\ [][readiness'.value # "none" => UNCHANGED <<force_https, ops>>]_vars

C9_Witness ==
  /\ readiness.value = "Ready(Ok(()))"
  /\ readiness.busy
  /\ \E o \in Ops : ops[o].pc = "connecting"
  /\ \E o \in Ops : ops[o].pc = "handshaking"

\* C10: the metadata of a successful operation, plain or encrypted, is the
\* metadata the plaintext collaborator produced for that operation.
C10_MetadataPassThrough ==
  \A o \in Ops :
    Succeeded(ops[o]) =>
      /\ ops[o].result.connected = ops[o].connecting.out.connected
      /\ ops[o].result.connected = MetaOf(o)

C10_Witness ==
  \E o, p \in Ops :
    /\ Succeeded(ops[o]) /\ ops[o].result.variant = "Https"
    /\ Succeeded(ops[p]) /\ ops[p].result.variant = "Http"
    /\ ops[o].result.connected = MetaOf(o)
    /\ ops[p].result.connected = MetaOf(p)

\* C11: a connector built by new() or by from() has force_https = false, and
\* as long as nothing has changed the flag a connect call for a destination
\* other than "https" is not rejected: it is handed to the plaintext
\* collaborator with that destination and never ends in the policy error.
C11_BuiltPermissive ==
  /\ \A c \in Connectors : force_https[c] = FALSE
  /\ \A o \in Ops :
       (ops[o].pc # "none" /\ ops[o].dst.scheme # "https") =>
         /\ ops[o].pc # "rejected" /\ ~ops[o].forced
         /\ ops[o].httpCalls = 1
         /\ ops[o].connecting.st # "none" /\ ops[o].connecting.dst = ops[o].dst
         /\ ~IsPolicyViolation(ops[o].result)

C11_Witness ==
  \E o \in Ops :
    /\ ops[o].dst.scheme = "http"
    /\ ops[o].pc = "connecting"
    /\ ops[o].httpCalls = 1 /\ ops[o].connecting.dst = ops[o].dst
    /\ \A c \in Connectors : ~force_https[c]

\* What an operation resolves to, told from nothing but its own destination,
\* the flag it met at submission and what its own collaborator futures
\* yielded.
OwnOutcome(op) ==
  IF op.dst.scheme # "https" /\ op.forced
  THEN [NoResult EXCEPT !.kind = "err",
                        !.err = <<"HTTPS scheme forced but can't be used">>]
  ELSE IF ~op.connecting.out.ok
  THEN [NoResult EXCEPT !.kind = "err",
                        !.err = <<"HTTP Connection failed: ", op.connecting.out.err>>]
  ELSE IF op.dst.scheme # "https"
  THEN [kind |-> "ok", variant |-> "Http", stream |-> op.connecting.out.stream,
        connected |-> op.connecting.out.connected, err |-> NoErr]
  ELSE IF ~op.tls.out.ok
  THEN [NoResult EXCEPT !.kind = "err", !.err = <<op.tls.out.err>>]
  ELSE [kind |-> "ok", variant |-> "Https", stream |-> op.tls.out.stream,
        connected |-> op.connecting.out.connected, err |-> NoErr]

\* C12: with several operations driven in any interleaving, what an operation
\* resolves to is determined by its own destination, the flag at its
\* submission and its own collaborator results; and a step that changes one
\* operation (its failure, completion or drop included) changes no other.
C12_Independent ==
  /\ [](\A o \in Ops : ops[o].pc = "done" => ops[o].result = OwnOutcome(ops[o]))
  /\ [][\A o, p \in Ops :
          (o # p /\ ops'[p] # ops[p]) => ops'[o] = ops[o]]_vars

C12_Witness ==
  \E o, p \in Ops :
    /\ o < p
    /\ ops[o].pc = "done" /\ ops[o].result.kind = "err"
    /\ ops[o].connecting.st = "completed"
    /\ Succeeded(ops[p]) /\ ops[p].dst = ops[o].dst
    /\ ops[p].result = OwnOutcome(ops[p])

\* A collaborator future of the operation has yielded a failure.
CollaboratorFailed(op) ==
  \/ (op.connecting.st = "completed" /\ ~op.connecting.out.ok)
  \/ (op.tls.st = "completed" /\ ~op.tls.out.ok)

\* C13: one operation invokes the plaintext collaborator at most once and the
\* TLS collaborator at most once; once a collaborator has failed the
\* operation holds an error, and from then on it invokes nothing and its
\* error stays as it is.
C13_NoRetry ==
  /\ [](\A o \in Ops :
          /\ ops[o].httpCalls <= 1 /\ ops[o].tlsCalls <= 1
          /\ CollaboratorFailed(ops[o]) =>
               (ops[o].pc = "done" /\ ops[o].result.kind = "err"))
  /\ [][\A o \in Ops : CollaboratorFailed(ops[o]) => ops'[o] = ops[o]]_vars

C13_Witness ==
  \E o, p \in Ops :
    /\ ops[o].tls.st = "completed" /\ ~ops[o].tls.out.ok
    /\ ops[o].httpCalls = 1 /\ ops[o].tlsCalls = 1
    /\ ops[p].connecting.st = "completed" /\ ~ops[p].connecting.out.ok
    /\ ops[p].httpCalls = 1 /\ ops[p].tlsCalls = 0

\* C14: whenever the TLS collaborator has been invoked for an operation, it
\* was given the host of the destination submitted for that operation and the
\* stream the plaintext collaborator returned for that operation, whatever
\* other operations were submitted or driven in between.
C14_OwnHostOwnStream ==
  \A o \in Ops :
    ops[o].tls.st # "none" =>
      /\ ops[o].tls.host = ops[o].dst.host
      /\ ops[o].tls.tcp = ops[o].connecting.out.stream
      /\ ops[o].tls.tcp = TcpOf(o)

C14_Witness ==
  \E o, p \in Ops :
    /\ ops[o].dst.host # ops[p].dst.host
    /\ ops[o].tls.st = "pending" /\ ops[p].tls.st = "completed"
    /\ ops[o].tls.host = ops[o].dst.host /\ ops[p].tls.host = ops[p].dst.host
    /\ ops[o].tls.tcp = TcpOf(o) /\ ops[p].tls.tcp = TcpOf(p)

\* C15: an operation that is polled fairly, is not dropped, and whose
\* collaborator futures complete, resolves: to a success or to one of the
\* three errors.  It resolves once: a resolved operation never changes.
C15_ResolvesOnce ==
  /\ \A o \in Ops :
       (ops[o].pc \in {"rejected", "created", "connecting", "handshaking"})
         ~> (ops[o].pc \in {"done", "dropped"})
  /\ [](\A o \in Ops :
          ops[o].pc = "done" =>
            \/ ops[o].result.kind = "ok"
            \/ IsPolicyViolation(ops[o].result)
            \/ IsTransportFailure(ops[o].result)
            \/ IsHandshakeFailure(ops[o].result))
  /\ [][\A o \in Ops : ops[o].pc = "done" => ops'[o] = ops[o]]_vars

C15_Witness ==
  \A o \in Ops :
    /\ ops[o].pc = "done"
    /\ ops[o].dst.scheme = "https"
    /\ ops[o].tls.st = "completed"
    /\ ops[o].result.kind = (IF o = 1 THEN "ok" ELSE "err")

\* C16: an operation rejected by the force_https check holds no collaborator
\* future and is never suspended; every poll of it, the first one included,
\* returns the policy error, whatever the other operations are waiting for.
C16_PreResolved ==
  /\ [](\A o \in Ops :
          SubmittedForced(ops[o]) =>
            /\ ops[o].pc \notin {"created", "connecting", "handshaking"}
            /\ ops[o].was \notin {"created", "connecting", "handshaking"}
            /\ ops[o].connecting.st = "none" /\ ops[o].tls.st = "none")
  /\ [][\A o \in Ops :
          ops[o].pc = "rejected" =>
            /\ ops'[o].pc \in {"rejected", "done", "dropped"}
            /\ \A r \in HttpPollsAt(ops[o], o) :
                 \A verdict \in TlsVerdictsAt(ops[o], r) :
                   poll(o, r, verdict) =>
                     (ops'[o].pc = "done" /\ IsPolicyViolation(ops'[o].result))]_vars

C16_Witness ==
  \E o, p \in Ops :
    /\ o > p
    /\ SubmittedForced(ops[o])
    /\ ops[o].pc = "done" /\ IsPolicyViolation(ops[o].result)
    /\ ops[p].pc = "connecting" /\ ops[p].connecting.st = "pending"

\* C17: a failed operation carries no stream and no metadata, and its error
\* is that of the stage that failed and of no other: the fixed message when
\* it was rejected by the check, the plaintext collaborator's error text
\* when the connection failed, the TLS collaborator's error text when the
\* handshake failed.
C17_StageDiagnostic ==
  \A o \in Ops :
    (ops[o].pc = "done" /\ ops[o].result.kind = "err") =>
      /\ ops[o].result.stream = NoStream
      /\ ops[o].result.connected = NoMeta
      /\ ops[o].result.variant = "none"
      /\ IsPolicyViolation(ops[o].result) <=> SubmittedForced(ops[o])
      /\ IsTransportFailure(ops[o].result) <=> HttpHasFailed(ops[o])
      /\ HttpHasFailed(ops[o]) =>
           ops[o].result.err = <<"HTTP Connection failed: ", ops[o].connecting.out.err>>
      /\ IsHandshakeFailure(ops[o].result) <=>
           (ops[o].tls.st = "completed" /\ ~ops[o].tls.out.ok)
      /\ (ops[o].tls.st = "completed" /\ ~ops[o].tls.out.ok) =>
           ops[o].result.err = <<ops[o].tls.out.err>>
      /\ \/ IsPolicyViolation(ops[o].result)
         \/ IsTransportFailure(ops[o].result)
         \/ IsHandshakeFailure(ops[o].result)

C17_Witness ==
  \E o, p \in Ops :
    /\ ops[o].pc = "done" /\ IsHandshakeFailure(ops[o].result)
    /\ ops[o].result.err = <<ops[o].tls.out.err>>
    /\ ops[p].pc = "done" /\ IsPolicyViolation(ops[p].result)
    /\ ops[o].result.stream = NoStream /\ ops[p].result.stream = NoStream

\* C18: the scheme and the flag are read once, when the operation is
\* submitted.  A step that changes a connector's flag changes no operation,
\* and whatever the flags have become an operation stays on the side it was
\* put on at submission: rejected, holding no collaborator future, or
\* admitted, never ending in the policy error.
C18_SampledAtSubmission ==
  /\ [](\A o \in Ops :
          ops[o].pc # "none" =>
            IF ops[o].dst.scheme # "https" /\ ops[o].forced
            THEN /\ ops[o].httpCalls = 0 /\ ops[o].tlsCalls = 0
                 /\ ops[o].pc = "done" => IsPolicyViolation(ops[o].result)
            ELSE /\ ops[o].httpCalls = 1
                 /\ ~IsPolicyViolation(ops[o].result))
  /\ [][force_https' # force_https => ops' = ops]_vars

C18_Witness ==
  \E o, p \in Ops :
    /\ o < p
    /\ ops[o].dst.scheme = "http" /\ ~ops[o].forced /\ Succeeded(ops[o])
    /\ ops[p].dst.scheme = "http" /\ ops[p].forced
    /\ ops[p].pc = "done" /\ IsPolicyViolation(ops[p].result)
    /\ \A c \in Connectors : ~force_https[c]

\* C19: an operation that has passed the force_https check and has not been
\* polled yet has already invoked the plaintext collaborator, once and with
\* the destination submitted, and has not invoked the TLS collaborator; this
\* is still so when it is dropped without ever having been polled.
C19_ConnectStartsAtCall ==
  \A o \in Ops :
    /\ ops[o].pc = "created" =>
         /\ ops[o].httpCalls = 1 /\ ops[o].tlsCalls = 0
         /\ ops[o].connecting.st = "pending"
         /\ ops[o].connecting.dst = ops[o].dst
         /\ ops[o].tls.st = "none"
    /\ (ops[o].pc = "dropped" /\ ops[o].was = "created") =>
         /\ ops[o].httpCalls = 1 /\ ops[o].tlsCalls = 0
         /\ ops[o].connecting.st = "dropped"
         /\ ops[o].connecting.dst = ops[o].dst
         /\ ops[o].tls.st = "none"

C19_Witness ==
  \E o, p \in Ops :
    /\ ops[o].pc = "dropped" /\ ops[o].was = "created"
    /\ ops[o].httpCalls = 1 /\ ops[o].tlsCalls = 0
    /\ ops[o].dst.scheme = "https"
    /\ ops[p].pc = "created" /\ ops[p].httpCalls = 1
    /\ ops[p].connecting.dst = ops[p].dst

====
